---- MODULE Spec2Model ----
(***************************************************************************)
(* Model of the pipeline build planner of server/procBuilder.go:          *)
(* procBuilder.Build, filterItemsWithMissingDependencies,                  *)
(* setBuildStepsOnBuild, environmentVariables, envsubst_ and sanitizePath. *)
(*                                                                         *)
(* Strings are sequences of one-character strings so that TrimSuffix,     *)
(* TrimPrefix, Contains and the byte-wise order of names are computed as   *)
(* the Go code computes them.                                              *)
(***************************************************************************)
EXTENDS Integers, Sequences, FiniteSets, TLC

VARIABLES
    pc,           \* position of the planner: sort, doc, axis, filter, returned, flattened
    config,       \* b.Repo.Config, the configuration folder
    Yamls,        \* b.Yamls: the pipeline documents
    di,           \* index of the document the outer loop of Build is at
    axes,         \* the axes of the current document
    ai,           \* index of the axis the inner loop of Build is at
    pidSequence,  \* Build's pidSequence
    items,        \* Build's items; after the return, the returned list
    err,          \* the error Build returns ("none": nil)
    Procs,        \* build.Procs
    compiled,     \* history: one record per (document, axis) pair that reached the compiler
    matched,      \* history: matched[p], whether the branch filter of the item with PID p matched
    compileFailed,\* history: whether some compilation failed
    built,        \* history: the items as they were before dependency pruning
    sp,           \* the sanitizePath experiment: path, folder, once, twice
    ev,           \* the substitution experiment: maps, text, environ, out
    px            \* the prefix experiment: per plan pidSequence, and the prefixes handed out

vars == <<pc, config, Yamls, di, axes, ai, pidSequence, items, err, Procs,
          compiled, matched, compileFailed, built, sp, ev, px>>

(***************************************************************************)
(* Bounds                                                                  *)
(***************************************************************************)
MaxDocs == 2
MaxAxes == 2
MaxPairs == 3
MaxParts == 4
MaxCalls == 3
MaxRand == 1

(***************************************************************************)
(* Strings                                                                 *)
(***************************************************************************)
Ord(ch) ==
    CASE ch = "\n" -> 10
      [] ch = "\"" -> 34
      [] ch = "." -> 46
      [] ch = "/" -> 47
      [] ch = "\\" -> 92
      [] ch = "a" -> 97
      [] ch = "b" -> 98
      [] ch = "c" -> 99
      [] ch = "l" -> 108
      [] ch = "m" -> 109
      [] ch = "n" -> 110
      [] ch = "x" -> 120
      [] ch = "y" -> 121

RECURSIVE StrLess(_, _)
StrLess(s, t) ==
    IF t = <<>> THEN FALSE
    ELSE IF s = <<>> THEN TRUE
    ELSE IF Ord(Head(s)) < Ord(Head(t)) THEN TRUE
    ELSE IF Ord(Head(s)) > Ord(Head(t)) THEN FALSE
    ELSE StrLess(Tail(s), Tail(t))

HasPrefix(s, prefix) ==
    /\ Len(prefix) <= Len(s)
    /\ SubSeq(s, 1, Len(prefix)) = prefix

HasSuffix(s, suffix) ==
    /\ Len(suffix) <= Len(s)
    /\ SubSeq(s, Len(s) - Len(suffix) + 1, Len(s)) = suffix

TrimPrefix(s, prefix) ==
    IF HasPrefix(s, prefix) THEN SubSeq(s, Len(prefix) + 1, Len(s)) ELSE s

TrimSuffix(s, suffix) ==
    IF HasSuffix(s, suffix) THEN SubSeq(s, 1, Len(s) - Len(suffix)) ELSE s

Contains(s, ch) == \E i \in 1..Len(s) : s[i] = ch

Yml == <<".", "y", "m", "l">>
Dot == <<".">>

\* sanitizePath with the suffix trimmed for as long as it is there.
sanitizePathGreedy(path, configFolder) ==
    LET RECURSIVE strip(_)
        strip(p) == IF HasSuffix(p, Yml) THEN strip(TrimSuffix(p, Yml)) ELSE p
    IN  TrimPrefix(TrimPrefix(strip(path), configFolder), Dot)

sanitizePath(path, configFolder) ==
    LET p1 == TrimSuffix(path, Yml)
        p2 == TrimPrefix(p1, configFolder)
        p3 == TrimPrefix(p2, Dot)
    IN  p3

(***************************************************************************)
(* Inputs of the planner                                                   *)
(***************************************************************************)
NameA == <<"a", ".", "y", "m", "l">>
NameCA == <<"c", "/", "a", ".", "y", "m", "l">>
NameB == <<"b", ".", "y", "m", "l">>
DocNames == {NameA, NameCA, NameB}

FolderNone == <<>>
FolderC == <<"c", "/">>
Folders == {FolderNone, FolderC}

\* matrix.Axis values; the empty axis is matrix.Axis{}.
EmptyAxis == [k \in {} |-> "1"]
AxisGo1 == [k \in {"GO"} |-> "1"]
AxisGo2 == [k \in {"GO"} |-> "2"]
AxisGo3 == [k \in {"GO"} |-> "3"]
AxisPool == <<AxisGo1, AxisGo2, AxisGo3>>

\* What matrix.ParseString makes of a document: an error, or 0..MaxAxes axes.
MatrixResults ==
    {[err |-> TRUE, axes |-> <<>>]}
        \cup {[err |-> FALSE, axes |-> SubSeq(AxisPool, 1, n)] : n \in 0..MaxAxes}

\* The names a pipeline definition may declare in depends_on.
DepA == <<"a">>
DepB == <<"b">>
DependsOnChoices == {<<>>, <<DepA>>, <<DepB>>, <<DepA, DepB>>}

\* The stage/step trees the compiler may return: a stage is the list of its
\* steps' aliases. One tree has no stage, the other a stage of two steps and a
\* stage of one.
CompiledConfigs ==
    {<<>>, <<<<"build", "test">>, <<"deploy">>>>}

\* The number of (document, axis) pairs the two loops of Build go through.
PairsOf(m) == IF m.err THEN 0 ELSE IF Len(m.axes) = 0 THEN 1 ELSE Len(m.axes)

RECURSIVE TotalPairs(_)
TotalPairs(ys) ==
    IF ys = <<>> THEN 0 ELSE PairsOf(Head(ys).Matrix) + TotalPairs(Tail(ys))

DocLists ==
    UNION {[1..n -> [Name : DocNames, Matrix : MatrixResults]] : n \in 0..MaxDocs}

\* Files of one commit: pairwise distinct paths.
YamlInputs ==
    {ys \in DocLists :
        /\ \A i, j \in 1..Len(ys) : i # j => ys[i].Name # ys[j].Name
        /\ TotalPairs(ys) <= MaxPairs}

(***************************************************************************)
(* sort.Sort(remote.ByName(b.Yamls))                                       *)
(***************************************************************************)
IsSortedByName(ys) ==
    \A i \in 1..(Len(ys) - 1) : ~StrLess(ys[i + 1].Name, ys[i].Name)

Rearrangements(ys) ==
    {zs \in [1..Len(ys) -> {ys[i] : i \in 1..Len(ys)}] :
        \A i \in 1..Len(ys) :
            Cardinality({j \in 1..Len(ys) : zs[j] = ys[i]})
                = Cardinality({j \in 1..Len(ys) : ys[j] = ys[i]})}

SortByName(ys) == {zs \in Rearrangements(ys) : IsSortedByName(zs)}

(***************************************************************************)
(* procBuilder.Build                                                       *)
(***************************************************************************)
StatusPending == "pending"
StatusSkipped == "skipped"

\* The descriptor of a (document, axis) pair. ID and PPID are not set: they
\* keep Go's zero value.
NewProc(pid, axis, name) ==
    [ID |-> 0, PID |-> pid, PPID |-> 0, PGID |-> pid,
     State |-> StatusPending, Environ |-> axis, Name |-> name]

\* A descriptor that keeps the name of the document as it is.
ItemNameRaw(path, configFolder) == path

ItemName(path, configFolder) == sanitizePath(path, configFolder)

BranchState(proc, match) ==
    IF ~match THEN [proc EXCEPT !.State = StatusSkipped] ELSE proc

\* What the compiler does with one pipeline definition: a stage/step tree, and
\* whether the compilation failed.
CompileResults == [Stages : CompiledConfigs, failed : BOOLEAN]

\* toInternalRepresentation returns the compiler's configuration and nothing else.
toInternalRepresentation(result) == [Stages |-> result.Stages]

\* An item is kept whatever its number of stages.
DiscardNever(ir) == FALSE

Discard(ir) == Len(ir.Stages) = 0

NewItem(proc, ir, dependsOn) ==
    [Proc |-> proc, Config |-> ir, DependsOn |-> dependsOn,
     Platform |-> "linux/amd64"]

ErrorReturn(its, e) == [items |-> <<>>, err |-> e]

StepOutcomes == {"ok", "envsubst", "yaml", "lint"}

(***************************************************************************)
(* filterItemsWithMissingDependencies                                      *)
(***************************************************************************)
containsItemWithName(name, its) ==
    \E i \in 1..Len(its) : name = its[i].Proc.Name

RECURSIVE Concat(_)
Concat(seqs) == IF seqs = <<>> THEN <<>> ELSE Head(seqs) \o Concat(Tail(seqs))

\* The first loop: an item is appended once for each of its missing names.
ItemsToRemove(its) ==
    Concat([i \in 1..Len(its) |->
        LET missing == SelectSeq(its[i].DependsOn,
                                 LAMBDA dep : ~containsItemWithName(dep, its))
        IN  [k \in 1..Len(missing) |-> its[i]]])

Filtered(its, itemsToRemove) ==
    SelectSeq(its, LAMBDA item : ~containsItemWithName(item.Proc.Name, itemsToRemove))

\* One pass only: the filtered list is returned as it is.
filterOnePass(its) ==
    LET itemsToRemove == ItemsToRemove(its)
    IN  IF Len(itemsToRemove) > 0 THEN Filtered(its, itemsToRemove) ELSE its

RECURSIVE filterItemsWithMissingDependencies(_)
filterItemsWithMissingDependencies(its) ==
    LET itemsToRemove == ItemsToRemove(its)
    IN  IF Len(itemsToRemove) > 0
        THEN filterItemsWithMissingDependencies(Filtered(its, itemsToRemove))
        ELSE its

(***************************************************************************)
(* setBuildStepsOnBuild                                                    *)
(***************************************************************************)
Max(a, b) == IF a < b THEN b ELSE a

\* The first loop: the items' descriptors are appended, and pidSequence ends as
\* the largest PID among them (0 when there is none).
RECURSIVE MaxItemPid(_)
MaxItemPid(its) ==
    IF its = <<>> THEN 0
    ELSE LET rest == MaxItemPid(SubSeq(its, 1, Len(its) - 1))
         IN  Max(rest, its[Len(its)].Proc.PID)

\* The sequence starts at the number of items.
StartPidCount(its) == Len(its)

StartPid(its) == MaxItemPid(its)

\* Every step takes the group id anew.
StageGidKeep(gid, pid) == pid

StageGid(gid, pid) == IF gid = 0 THEN pid ELSE gid

\* Every step starts pending.
StepStateAlwaysPending(item) == StatusPending

StepState(item) ==
    IF item.Proc.State = StatusSkipped THEN StatusSkipped ELSE StatusPending

StepProc(item, step, pid, gid) ==
    [ID |-> 0, PID |-> pid, PPID |-> item.Proc.PID, PGID |-> gid,
     State |-> StepState(item), Environ |-> EmptyAxis, Name |-> step]

\* The three nested loops; st is [pid, procs], the running pidSequence and
\* build.Procs.
RECURSIVE StepLoop(_, _, _, _, _)
StepLoop(item, steps, i, gid, st) ==
    IF i > Len(steps) THEN st
    ELSE LET pid == st.pid + 1
             g == StageGid(gid, pid)
         IN  StepLoop(item, steps, i + 1, g,
                      [pid |-> pid,
                       procs |-> Append(st.procs, StepProc(item, steps[i], pid, g))])

RECURSIVE StageLoop(_, _, _)
StageLoop(item, j, st) ==
    IF j > Len(item.Config.Stages) THEN st
    ELSE StageLoop(item, j + 1, StepLoop(item, item.Config.Stages[j], 1, 0, st))

RECURSIVE ItemLoop(_, _, _)
ItemLoop(its, k, st) ==
    IF k > Len(its) THEN st
    ELSE ItemLoop(its, k + 1, StageLoop(its[k], 1, st))

setBuildStepsOnBuild(procs, its) ==
    LET first == procs \o [k \in 1..Len(its) |-> its[k].Proc]
    IN  ItemLoop(its, 1, [pid |-> StartPid(its), procs |-> first]).procs

(***************************************************************************)
(* The planner: Build, then setBuildStepsOnBuild on a build without         *)
(* processes                                                               *)
(***************************************************************************)
Off == [pc |-> "off"]

Init ==
    /\ pc = "sort"
    /\ config \in Folders
    /\ Yamls \in YamlInputs
    /\ di = 1
    /\ axes = <<>>
    /\ ai = 1
    /\ pidSequence = 1
    /\ items = <<>>
    /\ err = "none"
    /\ Procs = <<>>
    /\ compiled = <<>>
    /\ matched = <<>>
    /\ compileFailed = FALSE
    /\ built = <<>>
    /\ sp = Off
    /\ ev = Off
    /\ px = Off

\* Lines 58-62: the documents are sorted by name and the sequence starts at 1.
SortYamls ==
    /\ pc = "sort"
    /\ Yamls' \in SortByName(Yamls)
    /\ pidSequence' = 1
    /\ items' = <<>>
    /\ di' = 1
    /\ pc' = IF Len(Yamls) = 0 THEN "filter" ELSE "doc"
    /\ UNCHANGED <<config, axes, ai, err, Procs, compiled, matched, compileFailed,
                   built, sp, ev, px>>

\* Lines 64-72: the matrix of the next document.
ParseMatrix ==
    /\ pc = "doc"
    /\ LET m == Yamls[di].Matrix
       IN  IF m.err
           THEN LET r == ErrorReturn(items, "matrix")
                IN  /\ items' = r.items
                    /\ err' = r.err
                    /\ pc' = "returned"
                    /\ UNCHANGED <<axes, ai>>
           ELSE /\ axes' = IF Len(m.axes) = 0 THEN <<EmptyAxis>> ELSE m.axes
                /\ ai' = 1
                /\ pc' = "axis"
                /\ UNCHANGED <<items, err>>
    /\ UNCHANGED <<config, Yamls, di, pidSequence, Procs, compiled, matched,
                   compileFailed, built, sp, ev, px>>

\* Lines 74-133: one round of the inner loop.
ProcessAxis ==
    /\ pc = "axis"
    /\ \E outcome \in StepOutcomes :
         IF outcome # "ok"
         THEN LET r == ErrorReturn(items, outcome)
              IN  /\ items' = r.items
                  /\ err' = r.err
                  /\ pc' = "returned"
                  /\ UNCHANGED <<di, ai, pidSequence, compiled, matched, compileFailed>>
         ELSE \E match \in BOOLEAN, dependsOn \in DependsOnChoices,
                 result \in CompileResults :
              LET y == Yamls[di]
                  axis == axes[ai]
                  proc == BranchState(
                              NewProc(pidSequence, axis, ItemName(y.Name, config)),
                              match)
                  ir == toInternalRepresentation(result)
                  keep == ~Discard(ir)
                  last == ai = Len(axes)
              IN  /\ items' = IF keep
                              THEN Append(items, NewItem(proc, ir, dependsOn))
                              ELSE items
                  /\ pidSequence' = IF keep THEN pidSequence + 1 ELSE pidSequence
                  /\ compiled' = Append(compiled,
                         [doc |-> di, axis |-> axis, pid |-> pidSequence,
                          stages |-> Len(result.Stages)])
                  /\ matched' = IF keep THEN Append(matched, match) ELSE matched
                  /\ compileFailed' = (compileFailed \/ result.failed)
                  /\ ai' = IF last THEN 1 ELSE ai + 1
                  /\ di' = IF last THEN di + 1 ELSE di
                  /\ pc' = IF ~last THEN "axis"
                           ELSE IF di + 1 > Len(Yamls) THEN "filter" ELSE "doc"
                  /\ err' = err
    /\ UNCHANGED <<config, Yamls, axes, Procs, built, sp, ev, px>>

\* Lines 136-138: the dependency filter and the return.
FilterAndReturn ==
    /\ pc = "filter"
    /\ built' = items
    /\ items' = filterItemsWithMissingDependencies(items)
    /\ err' = "none"
    /\ pc' = "returned"
    /\ UNCHANGED <<config, Yamls, di, axes, ai, pidSequence, Procs, compiled, matched,
                   compileFailed, sp, ev, px>>

\* setBuildStepsOnBuild on the items Build returned.
SetBuildSteps ==
    /\ pc = "returned"
    /\ err = "none"
    /\ Procs' = setBuildStepsOnBuild(Procs, items)
    /\ pc' = "flattened"
    /\ UNCHANGED <<config, Yamls, di, axes, ai, pidSequence, items, err, compiled,
                   matched, compileFailed, built, sp, ev, px>>

Next ==
    \/ SortYamls
    \/ ParseMatrix
    \/ ProcessAxis
    \/ FilterAndReturn
    \/ SetBuildSteps

Spec == Init /\ [][Next]_vars

(***************************************************************************)
(* Properties of the planner                                               *)
(***************************************************************************)
Returned == pc \in {"returned", "flattened"} /\ err = "none"

Flattened == pc = "flattened"

\* The steps of a process list: the descriptors after the items' own.
StepProcs == SubSeq(Procs, Len(items) + 1, Len(Procs))

\* C1: the PIDs of the final process list are pairwise distinct and strictly
\* increasing in the order of the list, also when pairs were discarded for
\* having no stage or items pruned by the dependency filter.
C1_PidsStrictlyIncreasing ==
    Flattened =>
        \A i, j \in 1..Len(Procs) : i < j => Procs[i].PID < Procs[j].PID

\* A plan with a discarded pair, a pruned item, a surviving item and its steps.
C1_Witness ==
    /\ Flattened
    /\ Len(compiled) > Len(built)
    /\ Len(built) > Len(items)
    /\ Len(items) >= 1
    /\ Len(Procs) > Len(items)

\* C2: after the dependency filter every name a surviving item depends on is
\* the name of a surviving item.
C2_DependenciesSurvive ==
    Returned =>
        \A i \in 1..Len(items) :
            \A d \in 1..Len(items[i].DependsOn) :
                containsItemWithName(items[i].DependsOn[d], items)

\* A cascade: B depends on a name no item has, A depends only on names that
\* items have, B among them, and neither A nor B survives.
C2_Witness ==
    /\ Returned
    /\ \E a, b \in 1..Len(built) :
        /\ built[a].Proc.Name # built[b].Proc.Name
        /\ \E d \in 1..Len(built[b].DependsOn) :
               ~containsItemWithName(built[b].DependsOn[d], built)
        /\ \A d \in 1..Len(built[a].DependsOn) :
               containsItemWithName(built[a].DependsOn[d], built)
        /\ \E d \in 1..Len(built[a].DependsOn) :
               built[a].DependsOn[d] = built[b].Proc.Name
        /\ ~containsItemWithName(built[a].Proc.Name, items)
        /\ ~containsItemWithName(built[b].Proc.Name, items)

\* The document an item was built from: the pair that was given its PID and kept.
DocOf(item) ==
    LET k == CHOOSE k \in 1..Len(compiled) :
                 compiled[k].pid = item.Proc.PID /\ compiled[k].stages > 0
    IN  Yamls[compiled[k].doc].Name

\* Two document names with the same sanitized form, written out for DocNames.
SameStem(n1, n2, folder) ==
    \/ n1 = n2
    \/ folder = FolderC /\ {n1, n2} = {NameA, NameCA}

\* C3 as stated: no two surviving items have the same name.
C3_NamesUnique ==
    Returned =>
        \A i, j \in 1..Len(items) :
            i # j => items[i].Proc.Name # items[j].Proc.Name

\* C3, amended: two surviving items have the same name exactly when they are
\* built from the same document (matrix legs) or from documents whose names
\* have the same sanitized form; otherwise their names differ.
C3_NamesByDocument ==
    Returned =>
        \A i, j \in 1..Len(items) :
            (items[i].Proc.Name = items[j].Proc.Name)
                <=> SameStem(DocOf(items[i]), DocOf(items[j]), config)

\* Two legs of one matrix survive, and so do items of two documents.
C3_Witness ==
    /\ Returned
    /\ \E i, j \in 1..Len(items) :
        /\ i # j
        /\ DocOf(items[i]) = DocOf(items[j])
    /\ \E i, j \in 1..Len(items) : DocOf(items[i]) # DocOf(items[j])

\* C4: in the final process list a step is Skipped exactly when the branch
\* filter of its owning item did not match, and Pending otherwise; the owning
\* item is in the list with the same state.
C4_SkippedIffNoMatch ==
    Flattened =>
        /\ \A n \in 1..Len(StepProcs) :
               StepProcs[n].State =
                   IF matched[StepProcs[n].PPID] THEN StatusPending ELSE StatusSkipped
        /\ \A n \in 1..Len(StepProcs) :
               \E k \in 1..Len(items) :
                   /\ Procs[k].PID = StepProcs[n].PPID
                   /\ Procs[k].State = StepProcs[n].State

\* A plan with the steps of a skipped item and the steps of a pending one.
C4_Witness ==
    /\ Flattened
    /\ \E n \in 1..Len(StepProcs) : StepProcs[n].State = StatusSkipped
    /\ \E n \in 1..Len(StepProcs) : StepProcs[n].State = StatusPending

\* C5 as stated: when the matrix, the substitution, the parser, the linter or
\* the compiler fails for a pair, Build returns an error; and Build never
\* returns an error together with items.
C5_FailureAbortsPlan ==
    pc \in {"returned", "flattened"} =>
        /\ compileFailed => err # "none"
        /\ err # "none" => items = <<>>

\* The part of C5 that the code does: an error comes with no items.
ErrorComesWithNoItems ==
    pc \in {"returned", "flattened"} /\ err # "none" => items = <<>>

\* The (document, axis) pairs of the sorted documents, in the order of the two
\* loops: a document without matrix counts as one empty axis.
ExpectedPairs(ys) ==
    Concat([d \in 1..Len(ys) |->
        IF Len(ys[d].Matrix.axes) = 0
        THEN <<[doc |-> d, axis |-> EmptyAxis]>>
        ELSE [a \in 1..Len(ys[d].Matrix.axes) |->
                 [doc |-> d, axis |-> ys[d].Matrix.axes[a]]]])

\* C6: before the dependency filter there is exactly one item per (document,
\* axis) pair whose compiled configuration has a stage, in ascending order of
\* document name and then in the order of the axes, with Environ the axis; a
\* document without matrix gives one pair, a matrix of N axes N pairs, and a
\* pair without stages no item.
C6_OneItemPerPair ==
    pc = "filter" =>
        LET exp == ExpectedPairs(Yamls)
            kept == SelectSeq(compiled, LAMBDA c : c.stages > 0)
        IN  /\ IsSortedByName(Yamls)
            /\ Len(compiled) = Len(exp)
            /\ \A k \in 1..Len(exp) :
                   compiled[k].doc = exp[k].doc /\ compiled[k].axis = exp[k].axis
            /\ Len(items) = Len(kept)
            /\ \A k \in 1..Len(kept) :
                   /\ items[k].Proc.Environ = kept[k].axis
                   /\ items[k].Proc.PID = k
                   /\ items[k].Proc.Name = sanitizePath(Yamls[kept[k].doc].Name, config)
                   /\ Len(items[k].Config.Stages) > 0

\* A matrix of two axes, a document without matrix, and a pair without stages.
C6_Witness ==
    /\ pc = "filter"
    /\ \E d \in 1..Len(Yamls) : Len(Yamls[d].Matrix.axes) = 2
    /\ \E d \in 1..Len(Yamls) : Len(Yamls[d].Matrix.axes) = 0
    /\ Len(items) >= 1
    /\ Len(items) < Len(compiled)

\* The steps of the items, in the order of the three loops.
StepIndex(its) ==
    Concat([k \in 1..Len(its) |->
        Concat([j \in 1..Len(its[k].Config.Stages) |->
            [i \in 1..Len(its[k].Config.Stages[j]) |->
                [item |-> k, stage |-> j, step |-> i]]])])

\* C10: the items' descriptors come first, in their order; a step has the PID
\* of its item as PPID and the PID of the first step of its stage as PGID; two
\* steps have the same PGID exactly when they are of the same stage of the same
\* item; no PID or PGID of a step is the PID of an item.
C10_ProcessTree ==
    Flattened =>
        LET idx == StepIndex(items)
            n0 == Len(items)
        IN  /\ Len(Procs) = n0 + Len(idx)
            /\ \A k \in 1..n0 : Procs[k] = items[k].Proc
            /\ \A n \in 1..Len(idx) :
                   /\ Procs[n0 + n].PPID = items[idx[n].item].Proc.PID
                   /\ Procs[n0 + n].PGID = Procs[n0 + n - idx[n].step + 1].PID
                   /\ \A k \in 1..n0 :
                          /\ Procs[n0 + n].PID # Procs[k].PID
                          /\ Procs[n0 + n].PGID # Procs[k].PID
            /\ \A m, n \in 1..Len(idx) :
                   (Procs[n0 + m].PGID = Procs[n0 + n].PGID)
                       <=> (idx[m].item = idx[n].item /\ idx[m].stage = idx[n].stage)

\* Two surviving items, each with a stage of two steps and a stage of one.
C10_Witness ==
    /\ Flattened
    /\ Len(items) >= 2
    /\ Len(Procs) >= Len(items) + 6

(***************************************************************************)
(* sanitizePath, applied once and then to its own result                   *)
(***************************************************************************)
PlannerOff ==
    /\ pc = "off"
    /\ config = <<>>
    /\ Yamls = <<>>
    /\ di = 1
    /\ axes = <<>>
    /\ ai = 1
    /\ pidSequence = 1
    /\ items = <<>>
    /\ err = "none"
    /\ Procs = <<>>
    /\ compiled = <<>>
    /\ matched = <<>>
    /\ compileFailed = FALSE
    /\ built = <<>>

plannerVars == <<pc, config, Yamls, di, axes, ai, pidSequence, items, err, Procs,
                 compiled, matched, compileFailed, built>>

\* Document names: up to MaxParts pieces, each a ".", a ".yml", a letter or the
\* folder "c/".
Pieces == {Dot, Yml, <<"a">>, FolderC}

PieceLists == UNION {[1..n -> Pieces] : n \in 0..MaxParts}

PathInputs == {Concat(ps) : ps \in PieceLists}

SanitizeFolders == {FolderNone, FolderC, Dot}

InitSanitize ==
    /\ PlannerOff
    /\ \E x \in PathInputs, c \in SanitizeFolders :
           sp = [pc |-> "in", path |-> x, folder |-> c, once |-> <<>>, twice |-> <<>>]
    /\ ev = Off
    /\ px = Off

SanitizeOnce ==
    /\ sp.pc = "in"
    /\ sp' = [sp EXCEPT !.pc = "once", !.once = sanitizePath(sp.path, sp.folder)]
    /\ UNCHANGED <<plannerVars, ev, px>>

SanitizeTwice ==
    /\ sp.pc = "once"
    /\ sp' = [sp EXCEPT !.pc = "twice", !.twice = sanitizePath(sp.once, sp.folder)]
    /\ UNCHANGED <<plannerVars, ev, px>>

NextSanitize ==
    \/ SanitizeOnce
    \/ SanitizeTwice

SpecSanitize == InitSanitize /\ [][NextSanitize]_vars

Clean(s, folder) ==
    /\ ~HasSuffix(s, Yml)
    /\ ~(folder # <<>> /\ HasPrefix(s, folder))
    /\ ~HasPrefix(s, Dot)

EnvKeys == {"A", "B"}

ValueX == <<"x">>
ValueY == <<"y">>
ValueLines == <<"x", "\n", "y">>
EnvValues == {ValueX, ValueY, ValueLines}

\* map[string]string over EnvKeys.
EnvMaps == UNION {[D -> EnvValues] : D \in SUBSET EnvKeys}

\* A Go map read at a key it does not have gives "".
MapGet(m, k) == IF k \in DOMAIN m THEN m[k] ELSE <<>>

\* for k, v := range src { dst[k] = v }
Overwrite(dst, src) ==
    [k \in (DOMAIN dst) \cup (DOMAIN src) |->
        IF k \in DOMAIN src THEN src[k] ELSE dst[k]]

\* The merge with the builder's extra environment written last.
environmentVariablesWithEnvs(b, metadata, axis) ==
    Overwrite(Overwrite(Overwrite(metadata.Environ, metadata.EnvironDrone), axis),
              b.Envs)

environmentVariables(b, metadata, axis) ==
    LET environ0 == metadata.Environ
        environ1 == Overwrite(environ0, metadata.EnvironDrone)
        environ2 == Overwrite(environ1, axis)
    IN  environ2

\* fmt.Sprintf("%q", s) on the characters of EnvValues.
QuoteChar(ch) ==
    CASE ch = "\n" -> <<"\\", "n">>
      [] ch = "\"" -> <<"\\", "\"">>
      [] ch = "\\" -> <<"\\", "\\">>
      [] OTHER -> <<ch>>

Quote(s) == <<"\"">> \o Concat([i \in 1..Len(s) |-> QuoteChar(s[i])]) \o <<"\"">>

\* The function envsubst_ hands to envsubst.Eval.
Mapping(environ, name) ==
    LET env == MapGet(environ, name)
    IN  IF Contains(env, "\n") THEN Quote(env) ELSE env

\* A text is a list of tokens: a literal character or a placeholder ${name}.
Lit(ch) == [kind |-> "lit", val |-> ch]
Var(name) == [kind |-> "var", val |-> name]

envsubst_(y, environ) ==
    Concat([i \in 1..Len(y) |->
        IF y[i].kind = "var" THEN Mapping(environ, y[i].val) ELSE <<y[i].val>>])

InitEnv ==
    /\ PlannerOff
    /\ sp = Off
    /\ px = Off
    /\ \E m \in EnvMaps, d \in EnvMaps, a \in EnvMaps, e \in EnvMaps, k \in EnvKeys :
           ev = [pc |-> "in",
                 metadata |-> [Environ |-> m, EnvironDrone |-> d],
                 axis |-> a,
                 b |-> [Envs |-> e],
                 key |-> k,
                 environ |-> <<>>,
                 out |-> <<>>]

\* Line 85 of Build.
EnvMerge ==
    /\ ev.pc = "in"
    /\ ev' = [ev EXCEPT !.pc = "merged",
                        !.environ = environmentVariables(ev.b, ev.metadata, ev.axis)]
    /\ UNCHANGED <<plannerVars, sp, px>>

\* Line 88 of Build, on the text ${key}.
EnvSubstitute ==
    /\ ev.pc = "merged"
    /\ ev' = [ev EXCEPT !.pc = "done",
                        !.out = envsubst_(<<Var(ev.key)>>, ev.environ)]
    /\ UNCHANGED <<plannerVars, sp, px>>

NextEnv ==
    \/ EnvMerge
    \/ EnvSubstitute

SpecEnv == InitEnv /\ [][NextEnv]_vars

\* A value as the substitution writes it: quoted when it has a newline.
Written(v) == IF Contains(v, "\n") THEN Quote(v) ELSE v

\* C9 as stated: the placeholder resolves to the extra environment's value when
\* the extra environment has the key, otherwise to the axis value, otherwise to
\* the metadata value, otherwise to the empty string.
C9_ExtraEnvironmentWins ==
    ev.pc = "done" =>
        ev.out = Written(
            IF ev.key \in DOMAIN ev.b.Envs THEN ev.b.Envs[ev.key]
            ELSE IF ev.key \in DOMAIN ev.axis THEN ev.axis[ev.key]
            ELSE IF ev.key \in DOMAIN ev.metadata.EnvironDrone
                 THEN ev.metadata.EnvironDrone[ev.key]
            ELSE IF ev.key \in DOMAIN ev.metadata.Environ
                 THEN ev.metadata.Environ[ev.key]
            ELSE <<>>)

\* C9, amended: the mapping is the merge of the metadata variables, then the
\* legacy-named metadata variables, then the axis, and the extra environment
\* has no part in it: the placeholder resolves to the axis value when the axis
\* has the key, otherwise to the metadata value, otherwise to the empty string,
\* a value with a newline written in its quoted form.
C9_AxisOverMetadata ==
    ev.pc = "done" =>
        ev.out = Written(
            IF ev.key \in DOMAIN ev.axis THEN ev.axis[ev.key]
            ELSE IF ev.key \in DOMAIN ev.metadata.EnvironDrone
                 THEN ev.metadata.EnvironDrone[ev.key]
            ELSE IF ev.key \in DOMAIN ev.metadata.Environ
                 THEN ev.metadata.Environ[ev.key]
            ELSE <<>>)

\* The key is in the extra environment, the axis and the metadata, with
\* pairwise different values.
C9_Witness ==
    /\ ev.pc = "done"
    /\ ev.key \in DOMAIN ev.b.Envs
    /\ ev.key \in DOMAIN ev.axis
    /\ ev.key \in DOMAIN ev.metadata.Environ
    /\ ev.b.Envs[ev.key] # ev.axis[ev.key]
    /\ ev.axis[ev.key] # ev.metadata.Environ[ev.key]
    /\ ev.out = ev.axis[ev.key]

(***************************************************************************)
(* The prefix toInternalRepresentation hands to the compiler, for two plans *)
(* computed at the same time                                               *)
(***************************************************************************)
Plans == {1, 2}

\* rand.Int()
RandVals == 0..MaxRand

\* fmt.Sprintf("%d_%d", procID, rand.Int())
Prefix(procID, r) == <<procID, "_", r>>

InitPrefix ==
    /\ PlannerOff
    /\ sp = Off
    /\ ev = Off
    /\ px = [pc |-> "on", pidSequence |-> [b \in Plans |-> 1], prefixes |-> <<>>]

\* Lines 75-82, 113-132 of Build in plan b: the descriptor, the call of
\* toInternalRepresentation with proc.ID, and the step of pidSequence for an
\* item that is kept.
CompileItem(b) ==
    /\ px.pc = "on"
    /\ Len(px.prefixes) < MaxCalls
    /\ \E r \in RandVals, result \in CompileResults :
        LET proc == NewProc(px.pidSequence[b], EmptyAxis, <<>>)
            ir == toInternalRepresentation(result)
            entry == [plan |-> b, PID |-> proc.PID, kept |-> ~Discard(ir),
                      prefix |-> Prefix(proc.ID, r)]
        IN  px' = [px EXCEPT
                     !.prefixes = Append(@, entry),
                     !.pidSequence[b] = IF Discard(ir) THEN @ ELSE @ + 1]
    /\ UNCHANGED <<plannerVars, sp, ev>>

NextPrefix == \E b \in Plans : CompileItem(b)

SpecPrefix == InitPrefix /\ [][NextPrefix]_vars

\* C7 as stated: the prefixes of any two build items are different, be they of
\* one plan or of two.
C7_PrefixesDistinct ==
    px.pc = "on" =>
        \A i, j \in 1..Len(px.prefixes) :
            (i # j /\ px.prefixes[i].kept /\ px.prefixes[j].kept)
                => px.prefixes[i].prefix # px.prefixes[j].prefix

(***************************************************************************)
(* Which items the dependency filter removes                               *)
(***************************************************************************)
\* The list the k-th call of filterItemsWithMissingDependencies is given.
RECURSIVE PassInput(_, _)
PassInput(its, k) ==
    IF k = 0 THEN its
    ELSE LET before == PassInput(its, k - 1)
         IN  Filtered(before, ItemsToRemove(before))

InList(item, its) == \E i \in 1..Len(its) : its[i] = item

\* An item of the list one of whose own names no item of the list has.
OwnNameMissing(item, its) ==
    /\ InList(item, its)
    /\ \E d \in 1..Len(item.DependsOn) :
           ~containsItemWithName(item.DependsOn[d], its)

\* C11 as stated: an item is removed only if, at some pass, one of its own
\* DependsOn names is the name of no item surviving at that pass; every other
\* item is returned, in the original relative order.
C11_RemovedOnlyForOwnMissingName ==
    Returned =>
        /\ \A i \in 1..Len(built) :
               ~InList(built[i], items) =>
                   \E k \in 0..Len(built) : OwnNameMissing(built[i], PassInput(built, k))
        /\ items = SelectSeq(built, LAMBDA item : InList(item, items))

\* What the code does: an item is removed when, at some pass, an item of its
\* name, itself or another, has a name missing; the order is kept, and items
\* all of whose names stay present under every name are returned.
RemovedForMarkedName ==
    Returned =>
        /\ \A i \in 1..Len(built) :
               ~InList(built[i], items) =>
                   \E k \in 0..Len(built), j \in 1..Len(built) :
                       /\ built[j].Proc.Name = built[i].Proc.Name
                       /\ InList(built[i], PassInput(built, k))
                       /\ OwnNameMissing(built[j], PassInput(built, k))
        /\ items = SelectSeq(built, LAMBDA item : InList(item, items))

====
